---- MODULE Spec2Model ----
(***************************************************************************)
(* Hole growth and level progression of the pothole game.                  *)
(*                                                                         *)
(* Lengths are integers in units of 1/200 of a world unit (0.005), so      *)
(* that every radius of the level catalog and every growth amount          *)
(* (radius x 0.3) is an integer.  Distances handed to canSwallow are       *)
(* measured in tenths of that unit (see Distance10).                       *)
(***************************************************************************)
EXTENDS Integers, Sequences, FiniteSets, Bags, TLC

\* localStorage.getItem returns null: no digits
NoItem == << >>

\* LevelManager.currentLevel is null
NoLevel == 0 - 1

\* ------------------------------------------------------------------ bounds
MaxResets == 1

\* --------------------------------------------------------------- constants
GrowthRateTenths == 3
ProximityTenths == 9
DisposalDepth == -1000
GroundLevelCeiling == 200
DefaultRadius == 160
DefaultTargetSize == 199800

\* ------------------------------------------------------------ level catalog
Obj(id, x, y, z, r, req) ==
  [id |-> id, position |-> <<x, y, z>>, swallowRadius |-> r, isRequired |-> req]

westPhillySidewalk ==
  [ name    |-> "West Philly Sidewalk",
    victory |-> [type |-> "all_objects", targetSize |-> 0, requiredObjects |-> << >>,
                 hasRequired |-> FALSE],
    hole    |-> [startRadius |-> 60, startPosition |-> <<0, 0>>],
    objects |-> << Obj("pebble1", 200, 10, 200, 10, FALSE),
                   Obj("pebble2", -300, 10, 100, 10, FALSE),
                   Obj("bottlecap", 400, 20, -400, 30, FALSE),
                   Obj("tennisball", -600, 60, -600, 60, FALSE) >> ]

clarkParkPlayground ==
  [ name    |-> "Clark Park Playground",
    victory |-> [type |-> "specific_objects", targetSize |-> 0,
                 requiredObjects |-> <<"sandbox">>,
                 hasRequired |-> TRUE],
    hole    |-> [startRadius |-> 160, startPosition |-> <<0, 0>>],
    objects |-> << Obj("marble1", 400, 20, 200, 20, FALSE),
                   Obj("marble2", -200, 20, 400, 20, FALSE),
                   Obj("playground_ball", -600, 100, -400, 80, FALSE),
                   Obj("sandbox", 800, 100, 600, 150, TRUE) >> ]

\* A level with the target_size victory (target 2.0, start radius 0.8); the
\* four growth amounts 45 + 60 + 75 + 60 bring the radius from 160 to
\* exactly 400.
targetSizeLevel ==
  [ name    |-> "Target Size",
    victory |-> [type |-> "target_size", targetSize |-> 400, requiredObjects |-> << >>,
                 hasRequired |-> FALSE],
    hole    |-> [startRadius |-> 160, startPosition |-> <<0, 0>>],
    objects |-> << Obj("crate", 400, 100, 0, 150, FALSE),
                   Obj("barrel", -400, 100, 0, 200, FALSE),
                   Obj("bench", 0, 100, 600, 250, FALSE),
                   Obj("drum", 0, 100, -600, 200, FALSE) >> ]

\* The playground with a victory condition that names an id ("sand_box")
\* which none of its objects has.
misconfiguredPlayground ==
  [clarkParkPlayground EXCEPT !.name = "Misconfigured Playground",
                              !.victory.requiredObjects = <<"sand_box">>]

Catalog == << westPhillySidewalk, clarkParkPlayground >>

InvalidCatalog == << westPhillySidewalk, misconfiguredPlayground >>

TargetCatalog == << targetSizeLevel, clarkParkPlayground >>

\* ---------------------------------------------------------------- helpers
RECURSIVE SeqToSet(_)
SeqToSet(s) == IF s = <<>> THEN {} ELSE {Head(s)} \cup SeqToSet(Tail(s))

Ids(level) == { level.objects[i].id : i \in 1..Len(level.objects) }

Sq(n) == n * n

\* floor of the square root, by bisection on lo..hi
RECURSIVE ISqrtIn(_, _, _)
ISqrtIn(n, lo, hi) ==
  IF lo >= hi THEN lo
  ELSE LET mid == (lo + hi + 1) \div 2
       IN IF Sq(mid) <= n THEN ISqrtIn(n, mid, hi) ELSE ISqrtIn(n, lo, mid - 1)

ISqrt(n) == ISqrtIn(n, 0, 32767)

\* Vector3.Distance(a, b) in tenths of the length unit, rounded down.  For
\* integer h and r,  distance - r < 0.9 h  holds of the real distance
\* exactly when it holds of this rounded value.
Distance10(a, b) ==
  ISqrt(100 * (Sq(a[1] - b[1]) + Sq(a[2] - b[2]) + Sq(a[3] - b[3])))

\* Number.prototype.toString / parseInt on non-negative integers: the stored
\* value is the sequence of decimal digits.
RECURSIVE toString(_)
toString(n) == IF n < 10 THEN << n >> ELSE Append(toString(n \div 10), n % 10)

RECURSIVE parseInt(_)
parseInt(s) ==
  IF Len(s) = 1 THEN s[1]
  ELSE 10 * parseInt(SubSeq(s, 1, Len(s) - 1)) + s[Len(s)]

\* ------------------------------------------------------------ swallow rules
\* faulty variant: an object exactly the hole's size passes the size test
canSwallowNonStrict(holeRadius, objectRadius, distanceToObject) ==
  LET edgeDistance == distanceToObject - objectRadius
  IN /\ 10 * edgeDistance < holeRadius * ProximityTenths
     /\ objectRadius <= holeRadius

canSwallow(holeRadius, objectRadius, distanceToObject) ==
  LET edgeDistance == distanceToObject - objectRadius
  IN /\ 10 * edgeDistance < holeRadius * ProximityTenths
     /\ objectRadius < holeRadius

\* faulty variant: a fixed increment instead of one proportional to the object
calculateGrowthFixed(objectRadius, growthRate) == growthRate

\* faulty variant: swallowing does not grow the hole
calculateGrowthNone(objectRadius, growthRate) == 0

\* faulty variant: half of the proportional increment
calculateGrowthHalved(objectRadius, growthRate) == (objectRadius * growthRate) \div 20

calculateGrowth(objectRadius, growthRate) == (objectRadius * growthRate) \div 10

\* ------------------------------------------------------------------- state
VARIABLES
  levels,            \* the level catalog (fixed by Init)
  radius,            \* Hole.radius
  position,          \* Hole.position (x, z); its y stays 0
  swallowingMeshes,  \* Hole.swallowingMeshes: ids of meshes being swallowed
  meshes,            \* mesh objects by handle <<id, k>>: height and lifecycle
  sceneMeshes,       \* scene.meshes: handles of the meshes not disposed
  fallTimers,        \* pending setTimeout(checkFall, 100): bag of closures
  victoryTimers,     \* number of pending 2000 ms timeouts of triggerVictory
  currentLevelIndex, \* LevelManager.currentLevelIndex
  currentLevel,      \* LevelManager.currentLevel: catalog index, NoLevel for null
  remainingObjects,  \* LevelManager.remainingObjects
  requiredObjects,   \* LevelManager.requiredObjects
  levelObjects,      \* LevelManager.levelObjects: id -> mesh handle
  storage,           \* localStorage['currentLevel']: NoItem or a digit string
  pc,                \* "booting" until physics is initialised, then "running"
  victoryCalls,      \* onVictory invocations since the last level load
  gameCompleteCalls, \* onGameComplete invocations since the last (re)start
  completeShown,     \* the game-complete screen with its restart button is up
  resets,            \* resetProgress calls of this page session
  probe,             \* a call of a pure function: its inputs and its result
  last               \* what the last step did (observation only)

vars == << levels, radius, position, swallowingMeshes, meshes, sceneMeshes,
           fallTimers, victoryTimers, currentLevelIndex, currentLevel,
           remainingObjects, requiredObjects, levelObjects, storage, pc,
           victoryCalls, gameCompleteCalls, completeShown, resets, probe, last >>

\* The whole state as one record, so that a handler that calls other
\* handlers is the composition of their state transformers.
World ==
  [ levels |-> levels, radius |-> radius, position |-> position,
    swallowingMeshes |-> swallowingMeshes, meshes |-> meshes,
    sceneMeshes |-> sceneMeshes, fallTimers |-> fallTimers,
    victoryTimers |-> victoryTimers, currentLevelIndex |-> currentLevelIndex,
    currentLevel |-> currentLevel, remainingObjects |-> remainingObjects,
    requiredObjects |-> requiredObjects, levelObjects |-> levelObjects,
    storage |-> storage, pc |-> pc, victoryCalls |-> victoryCalls,
    gameCompleteCalls |-> gameCompleteCalls,
    completeShown |-> completeShown, resets |-> resets, probe |-> probe,
    last |-> last ]

Becomes(w) ==
  /\ levels' = w.levels
  /\ radius' = w.radius
  /\ position' = w.position
  /\ swallowingMeshes' = w.swallowingMeshes
  /\ meshes' = w.meshes
  /\ sceneMeshes' = w.sceneMeshes
  /\ fallTimers' = w.fallTimers
  /\ victoryTimers' = w.victoryTimers
  /\ currentLevelIndex' = w.currentLevelIndex
  /\ currentLevel' = w.currentLevel
  /\ remainingObjects' = w.remainingObjects
  /\ requiredObjects' = w.requiredObjects
  /\ levelObjects' = w.levelObjects
  /\ storage' = w.storage
  /\ pc' = w.pc
  /\ victoryCalls' = w.victoryCalls
  /\ gameCompleteCalls' = w.gameCompleteCalls
  /\ completeShown' = w.completeShown
  /\ resets' = w.resets
  /\ probe' = w.probe
  /\ last' = w.last

\* ------------------------------------------------------------------ meshes
RemoveFromSeq(s, x) == SelectSeq(s, LAMBDA e : e # x)

\* AbstractMesh.dispose(): the mesh leaves scene.meshes and isDisposed()
\* becomes true; its position is no longer updated by the physics engine.
disposeMesh(w, h) ==
  [w EXCEPT !.meshes[h].disposed = TRUE,
            !.sceneMeshes = RemoveFromSeq(@, h)]

\* handles that a pending checkFall closure still refers to
TimerMeshes(w) == { t.mesh : t \in BagToSet(w.fallTimers) }

\* A mesh object of an earlier level load that is disposed and that no
\* closure refers to is unreachable.
Collect(w) ==
  LET keep == { h \in DOMAIN w.meshes :
                  \/ ~w.meshes[h].old
                  \/ ~w.meshes[h].disposed
                  \/ h \in TimerMeshes(w) }
  IN [w EXCEPT !.meshes = [h \in keep |-> w.meshes[h]]]

\* -------------------------------------------------------------------- Hole
\* faulty variant: without the collaborator a hole is built that cuts nothing
HoleConstructorLenient(initialRadius, initialPosition, game) ==
  [ threw |-> FALSE,
    holes |-> {[radius |-> initialRadius, position |-> initialPosition,
                swallowingMeshes |-> {}]},
    cuts  |-> IF game
              THEN << [x |-> initialPosition[1], z |-> initialPosition[2],
                       radius |-> initialRadius] >>
              ELSE << >> ]

\* new Hole(scene, initialRadius, initialPosition, game); game is FALSE when
\* the reference is missing.  The result is either the exception or the one
\* hole that was built, with the cut requests issued on the way.
HoleConstructor(initialRadius, initialPosition, game) ==
  IF ~game
  THEN [threw |-> TRUE, holes |-> {}, cuts |-> << >>]
  ELSE [ threw |-> FALSE,
         holes |-> {[radius |-> initialRadius, position |-> initialPosition,
                     swallowingMeshes |-> {}]},
         cuts  |-> << [x |-> initialPosition[1], z |-> initialPosition[2],
                       radius |-> initialRadius] >> ]

getMeshRadius(w, h) == w.meshes[h].swallowRadius

\* this.game.cutHoleInGround(this.position, this.radius): the request the
\* hole hands to the Game, with the position and radius it has at the call
cutHoleInGround(w) ==
  [w EXCEPT !.last.cuts =
     Append(@, [x |-> w.position[1], z |-> w.position[2], radius |-> w.radius])]

\* faulty variant: the radius is increased only after the ground was re-cut
growCutFirst(w, amount) ==
  [cutHoleInGround(w) EXCEPT !.radius = @ + amount]

grow(w, amount) == cutHoleInGround([w EXCEPT !.radius = @ + amount])

\* faulty variant: the ground is re-cut where the hole was
moveToCutFirst(w, x, z) ==
  [cutHoleInGround(w) EXCEPT !.position = << x, z >>]

moveTo(w, x, z) == cutHoleInGround([w EXCEPT !.position = << x, z >>])

setRadius(w, r) == [w EXCEPT !.radius = r]

\* ------------------------------------------------------------ LevelManager
\* Game.onVictory reads getCurrentLevel(); what it finds is recorded
onVictory(w) ==
  [w EXCEPT !.victoryCalls = @ + 1, !.last.victories = @ + 1,
            !.last.seen = Append(@, [currentLevel |-> w.currentLevel,
                                     currentLevelIndex |-> w.currentLevelIndex,
                                     storage |-> w.storage,
                                     victoryTimers |-> w.victoryTimers])]

onGameComplete(w) ==
  [w EXCEPT !.gameCompleteCalls = @ + 1, !.completeShown = TRUE,
            !.last.completes = @ + 1]

\* faulty variant: the callback runs before the index is advanced and stored
triggerVictoryCallbackFirst(w) ==
  LET w1 == onVictory(w)
      w2 == [w1 EXCEPT !.currentLevelIndex = @ + 1]
      w3 == [w2 EXCEPT !.storage = toString(w2.currentLevelIndex)]
  IN [w3 EXCEPT !.victoryTimers = @ + 1]

triggerVictory(w) ==
  LET w1 == [w EXCEPT !.currentLevelIndex = @ + 1]
      w2 == [w1 EXCEPT !.storage = toString(w1.currentLevelIndex)]
      w3 == onVictory(w2)
  IN [w3 EXCEPT !.victoryTimers = @ + 1]

TargetOf(victory) ==
  IF victory.targetSize = 0 THEN DefaultTargetSize ELSE victory.targetSize

\* faulty variant: all_objects is satisfied while one object is still left
isVictoryOneLeft(w) ==
  LET victory == w.levels[w.currentLevel + 1].victory
  IN CASE victory.type = "all_objects" -> Cardinality(w.remainingObjects) <= 1
       [] victory.type = "target_size" -> w.radius >= TargetOf(victory)
       [] victory.type = "specific_objects" ->
            /\ victory.hasRequired
            /\ \A i \in 1..Len(victory.requiredObjects) :
                 victory.requiredObjects[i] \notin w.remainingObjects
       [] OTHER -> FALSE

\* faulty variant: specific_objects falls through to the all_objects test
isVictoryFallThrough(w) ==
  LET victory == w.levels[w.currentLevel + 1].victory
  IN CASE victory.type = "all_objects" -> w.remainingObjects = {}
       [] victory.type = "target_size" -> w.radius >= TargetOf(victory)
       [] victory.type = "specific_objects" -> w.remainingObjects = {}
       [] OTHER -> FALSE

\* faulty variant: the target size has to be exceeded
isVictoryStrict(w) ==
  LET victory == w.levels[w.currentLevel + 1].victory
  IN CASE victory.type = "all_objects" -> w.remainingObjects = {}
       [] victory.type = "target_size" -> w.radius > TargetOf(victory)
       [] victory.type = "specific_objects" ->
            /\ victory.hasRequired
            /\ \A i \in 1..Len(victory.requiredObjects) :
                 victory.requiredObjects[i] \notin w.remainingObjects
       [] OTHER -> FALSE

isVictory(w) ==
  LET victory == w.levels[w.currentLevel + 1].victory
  IN CASE victory.type = "all_objects" -> w.remainingObjects = {}
       [] victory.type = "target_size" -> w.radius >= TargetOf(victory)
       [] victory.type = "specific_objects" ->
            /\ victory.hasRequired
            /\ \A i \in 1..Len(victory.requiredObjects) :
                 victory.requiredObjects[i] \notin w.remainingObjects
       [] OTHER -> FALSE

checkVictoryCondition(w) ==
  IF w.currentLevel = NoLevel THEN w
  ELSE LET w1 == [w EXCEPT !.last.checks =
                     Append(@, [radius |-> w.radius, victory |-> isVictory(w)])]
       IN IF isVictory(w) THEN triggerVictory(w1) ELSE w1

\* faulty variant: no early return for an id that is not remaining
onObjectSwallowedUnguarded(w, objectId) ==
  LET w1 == [w EXCEPT
               !.remainingObjects = @ \ {objectId},
               !.levelObjects = [i \in DOMAIN @ \ {objectId} |-> @[i]]]
  IN checkVictoryCondition(w1)

onObjectSwallowed(w, objectId) ==
  IF objectId \notin w.remainingObjects
  THEN w
  ELSE LET w1 == [w EXCEPT
                    !.remainingObjects = @ \ {objectId},
                    !.levelObjects = [i \in DOMAIN @ \ {objectId} |-> @[i]]]
       IN checkVictoryCondition(w1)

RECURSIVE DisposeAll(_, _)
DisposeAll(w, hs) ==
  IF hs = {} THEN w
  ELSE LET h == CHOOSE x \in hs : TRUE
       IN DisposeAll(disposeMesh(w, h), hs \ {h})

\* faulty variant: the ids of the level that is left are not forgotten
clearLevelKeepsIds(w) ==
  LET w1 == DisposeAll(w, { w.levelObjects[i] : i \in DOMAIN w.levelObjects })
  IN [w1 EXCEPT !.levelObjects = << >>,
                !.meshes = [h \in DOMAIN @ |-> [@[h] EXCEPT !.old = TRUE]]]

clearLevel(w) ==
  LET w1 == DisposeAll(w, { w.levelObjects[i] : i \in DOMAIN w.levelObjects })
  IN [w1 EXCEPT !.levelObjects = << >>,
                !.remainingObjects = {},
                !.requiredObjects = {},
                !.meshes = [h \in DOMAIN @ |-> [@[h] EXCEPT !.old = TRUE]]]

FreshHandle(w, id) ==
  << id, CHOOSE k \in 0..Cardinality(DOMAIN w.meshes) :
           /\ << id, k >> \notin DOMAIN w.meshes
           /\ \A j \in 0..(k - 1) : << id, j >> \in DOMAIN w.meshes >>

createObject(w, config) ==
  LET h == FreshHandle(w, config.id)
      m == [levelObjectId |-> config.id,
            swallowRadius |-> config.swallowRadius,
            x |-> config.position[1], y |-> config.position[2],
            z |-> config.position[3],
            disposed |-> FALSE, old |-> FALSE,
            holeDisposals |-> 0, growths |-> 0]
  IN [w EXCEPT
        !.meshes = [x \in DOMAIN @ \cup {h} |-> IF x = h THEN m ELSE @[x]],
        !.sceneMeshes = Append(@, h),
        !.levelObjects = [i \in DOMAIN @ \cup {config.id} |->
                            IF i = config.id THEN h ELSE @[i]],
        !.remainingObjects = @ \cup {config.id},
        !.requiredObjects = IF config.isRequired THEN @ \cup {config.id} ELSE @]

RECURSIVE CreateObjects(_, _)
CreateObjects(w, configs) ==
  IF configs = << >> THEN w
  ELSE CreateObjects(createObject(w, Head(configs)), Tail(configs))

loadLevel(w, index) ==
  LET levelConfig == w.levels[index + 1]
      w1 == clearLevel(w)
      w2 == [w1 EXCEPT !.currentLevel = index, !.victoryCalls = 0,
                       !.last.loaded = TRUE]
      w3 == setRadius(w2, levelConfig.hole.startRadius)
      w4 == moveTo(w3, levelConfig.hole.startPosition[1],
                       levelConfig.hole.startPosition[2])
  IN CreateObjects(w4, levelConfig.objects)

\* faulty variant: the bound is tested with > ; at the catalog length loadLevel is
\* entered with an undefined config and throws after clearLevel
loadCurrentLevelOffByOne(w) ==
  IF w.currentLevelIndex > Len(w.levels)
  THEN onGameComplete(w)
  ELSE IF w.currentLevelIndex = Len(w.levels)
       THEN [clearLevel(w) EXCEPT !.currentLevel = NoLevel]
       ELSE loadLevel(w, w.currentLevelIndex)

loadCurrentLevel(w) ==
  IF w.currentLevelIndex >= Len(w.levels)
  THEN onGameComplete(w)
  ELSE loadLevel(w, w.currentLevelIndex)

\* faulty variant: the stored index is left in place
resetProgressKeepsItem(w) ==
  loadCurrentLevel([w EXCEPT !.currentLevelIndex = 0])

resetProgress(w) ==
  loadCurrentLevel([w EXCEPT !.currentLevelIndex = 0, !.storage = NoItem])

\* the callback of the 2000 ms timeout set by triggerVictory
victoryTimeout(w) ==
  IF w.currentLevelIndex < Len(w.levels)
  THEN loadCurrentLevel(w)
  ELSE onGameComplete(w)

\* ------------------------------------------------------- Hole: swallowing
\* The hole hands the finalized mesh to the callback registered by the Game,
\* which forwards it to LevelManager.onObjectSwallowed; the identifier is
\* read from the mesh's metadata.
notifySwallowed(w, h) == onObjectSwallowed(w, w.meshes[h].levelObjectId)

\* faulty variant: an object exactly at the disposal depth is finalized
checkFallAtDepth(w, h, growAmount) ==
  IF w.meshes[h].y <= DisposalDepth
  THEN LET w1 == disposeMesh(w, h)
           w2 == [w1 EXCEPT !.swallowingMeshes = @ \ {h[1]}]
           w3 == grow(w2, growAmount)
           w4 == [w3 EXCEPT !.meshes[h].holeDisposals = @ + 1,
                            !.meshes[h].growths = @ + 1,
                            !.last.finalized =
                               Append(@, [mesh |-> h,
                                          swallowRadius |-> w.meshes[h].swallowRadius,
                                          growAmount |-> growAmount])]
       IN notifySwallowed(w4, h)
  ELSE IF ~w.meshes[h].disposed
       THEN [w EXCEPT !.fallTimers =
               @ (+) SetToBag({[mesh |-> h, growAmount |-> growAmount]})]
       ELSE w

\* faulty variant: a finalization empties the in-flight set
checkFallClearsInFlight(w, h, growAmount) ==
  IF w.meshes[h].y < DisposalDepth
  THEN LET w1 == disposeMesh(w, h)
           w2 == [w1 EXCEPT !.swallowingMeshes = {}]
           w3 == grow(w2, growAmount)
           w4 == [w3 EXCEPT !.meshes[h].holeDisposals = @ + 1,
                            !.meshes[h].growths = @ + 1,
                            !.last.finalized =
                               Append(@, [mesh |-> h,
                                          swallowRadius |-> w.meshes[h].swallowRadius,
                                          growAmount |-> growAmount])]
       IN notifySwallowed(w4, h)
  ELSE IF ~w.meshes[h].disposed
       THEN [w EXCEPT !.fallTimers =
               @ (+) SetToBag({[mesh |-> h, growAmount |-> growAmount]})]
       ELSE w

\* faulty variant: the poll goes on after the finalization
checkFallRepolls(w, h, growAmount) ==
  IF w.meshes[h].y < DisposalDepth
  THEN LET w1 == disposeMesh(w, h)
           w2 == [w1 EXCEPT !.swallowingMeshes = @ \ {h[1]}]
           w3 == grow(w2, growAmount)
           w4 == [w3 EXCEPT !.meshes[h].holeDisposals = @ + 1,
                            !.meshes[h].growths = @ + 1,
                            !.fallTimers =
                               @ (+) SetToBag({[mesh |-> h, growAmount |-> growAmount]}),
                            !.last.finalized =
                               Append(@, [mesh |-> h,
                                          swallowRadius |-> w.meshes[h].swallowRadius,
                                          growAmount |-> growAmount])]
       IN notifySwallowed(w4, h)
  ELSE IF ~w.meshes[h].disposed
       THEN [w EXCEPT !.fallTimers =
               @ (+) SetToBag({[mesh |-> h, growAmount |-> growAmount]})]
       ELSE w

checkFall(w, h, growAmount) ==
  IF w.meshes[h].y < DisposalDepth
  THEN LET w1 == disposeMesh(w, h)
           w2 == [w1 EXCEPT !.swallowingMeshes = @ \ {h[1]}]
           w3 == grow(w2, growAmount)
           w4 == [w3 EXCEPT !.meshes[h].holeDisposals = @ + 1,
                            !.meshes[h].growths = @ + 1,
                            !.last.finalized =
                               Append(@, [mesh |-> h,
                                          swallowRadius |-> w.meshes[h].swallowRadius,
                                          growAmount |-> growAmount])]
       IN notifySwallowed(w4, h)
  ELSE IF ~w.meshes[h].disposed
       THEN [w EXCEPT !.fallTimers =
               @ (+) SetToBag({[mesh |-> h, growAmount |-> growAmount]})]
       ELSE w

swallowObject(w, h) ==
  LET meshRadius == getMeshRadius(w, h)
      growAmount == calculateGrowth(meshRadius, GrowthRateTenths)
  IN checkFall(w, h, growAmount)

\* faulty variant: the in-flight set is not consulted
StartSwallowUnguarded(w, h) ==
  swallowObject([w EXCEPT !.swallowingMeshes = @ \cup {h[1]},
                          !.last.started = @ \cup {h}], h)

\* Only swallow if not already being swallowed
StartSwallow(w, h) ==
  IF h[1] \notin w.swallowingMeshes
  THEN swallowObject([w EXCEPT !.swallowingMeshes = @ \cup {h[1]},
                               !.last.started = @ \cup {h}], h)
  ELSE [w EXCEPT !.last.reattempted = @ \cup {h}]

MeshPosition(w, h) == << w.meshes[h].x, w.meshes[h].y, w.meshes[h].z >>

OverHole(w, h) ==
  LET p == MeshPosition(w, h)
  IN Sq(p[1] - w.position[1]) + Sq(p[3] - w.position[2]) < Sq(w.radius)

\* the body of the forEach of Hole.update for one mesh
UpdateMesh(w, h) ==
  LET distance == Distance10(MeshPosition(w, h),
                             << w.position[1], 0, w.position[2] >>)
      meshRadius == getMeshRadius(w, h)
  IN IF /\ canSwallow(10 * w.radius, 10 * meshRadius, distance)
        /\ OverHole(w, h)
        /\ MeshPosition(w, h)[2] < GroundLevelCeiling
     THEN StartSwallow(w, h)
     ELSE w

getSwallowableObjects(w, ms) ==
  SelectSeq(ms, LAMBDA h : ~w.meshes[h].disposed)

RECURSIVE UpdateAll(_, _)
UpdateAll(w, ms) ==
  IF ms = << >> THEN w ELSE UpdateAll(UpdateMesh(w, Head(ms)), Tail(ms))

update(w) == UpdateAll(w, getSwallowableObjects(w, w.sceneMeshes))

\* ----------------------------------------------------------------- actions
Observe(op) ==
  [op |-> op, started |-> {}, reattempted |-> {}, finalized |-> << >>,
   checks |-> << >>, cuts |-> << >>, seen |-> << >>,
   victories |-> 0, completes |-> 0, loaded |-> FALSE]

Begin(op) == [World EXCEPT !.last = Observe(op)]

\* a step in which no swallow started or ended and no level event happened
\* leaves no observation behind
Quiet(o) ==
  /\ o.started = {} /\ o.reattempted = {}
  /\ o.finalized = << >> /\ o.checks = << >>
  /\ o.cuts = << >> /\ o.seen = << >>
  /\ o.victories = 0 /\ o.completes = 0 /\ ~o.loaded

Step(w) ==
  LET c == Collect(w)
  IN Becomes(IF Quiet(c.last) THEN [c EXCEPT !.last = Observe("idle")] ELSE c)

\* the places the player drags the hole to: the level's start position and
\* the spot under each of its objects
Places(w) ==
  (IF w.currentLevel = NoLevel THEN {<< 0, 0 >>}
   ELSE LET level == w.levels[w.currentLevel + 1]
        IN {level.hole.startPosition} \cup
           { << level.objects[i].position[1], level.objects[i].position[3] >>
             : i \in 1..Len(level.objects) })

DeepY == DisposalDepth - 200

\* the heights the model distinguishes: at rest, exactly at the disposal
\* depth, and below it
NextY(y) == IF y >= 0 THEN DisposalDepth ELSE DeepY

\* the physics engine may move a mesh down when it is over the opening and
\* fits into it, or when it is already below ground
CanFall(w, h) ==
  /\ ~w.meshes[h].disposed
  /\ w.meshes[h].y > DeepY
  /\ \/ w.meshes[h].y < 0
     \/ OverHole(w, h) /\ getMeshRadius(w, h) < w.radius

\* initPhysics resolves: the first level is loaded
Boot ==
  /\ pc = "booting"
  /\ Step(loadCurrentLevel([Begin("boot") EXCEPT !.pc = "running"]))

\* scene.render() lets the physics engine move the meshes
physicsStep(w, hs) ==
  [w EXCEPT !.meshes = [h \in DOMAIN @ |->
                          IF h \in hs THEN [@[h] EXCEPT !.y = NextY(@)] ELSE @[h]]]

Falling(w) == { h \in DOMAIN w.meshes : CanFall(w, h) }

\* One tick of the render loop: hole.update() on the positions of this
\* frame, then the physics of the next scene.render(), which moves any of
\* the meshes that can fall to the next height the model distinguishes.
Frame ==
  LET w == update(Begin("update"))
  IN \E hs \in SUBSET Falling(w) : Step(physicsStep(w, hs))

\* pointermove while dragging
Drag ==
  \E p \in Places(World) :
    /\ p # position
    /\ Step(moveTo(Begin("moveTo"), p[1], p[2]))

\* a pending setTimeout(checkFall, 100) fires
FallTimer ==
  \E t \in BagToSet(fallTimers) :
    Step(checkFall([Begin("poll") EXCEPT
                      !.fallTimers = @ (-) SetToBag({t})],
                   t.mesh, t.growAmount))

\* the 2000 ms timeout of triggerVictory fires
VictoryTimer ==
  /\ victoryTimers > 0
  /\ Step(victoryTimeout([Begin("victoryTimeout") EXCEPT !.victoryTimers = @ - 1]))

\* the restart button of the game-complete screen
Restart ==
  /\ completeShown
  /\ resets < MaxResets
  /\ Step(resetProgress([Begin("resetProgress") EXCEPT
                           !.completeShown = FALSE, !.gameCompleteCalls = 0,
                           !.resets = @ + 1]))

NoHole == [threw |-> FALSE, holes |-> {}, cuts |-> << >>]

NoProbe == [fn |-> "none", a |-> 0, b |-> 0, c |-> 0, result |-> 0, made |-> NoHole]

\* the page is reloaded: a new Game, Hole and LevelManager are constructed
Constructed(lv, st) ==
  LET made == HoleConstructor(DefaultRadius, << 0, 0 >>, TRUE)
      hole == CHOOSE h \in made.holes : TRUE
  IN
  [ levels |-> lv, radius |-> hole.radius, position |-> hole.position,
    swallowingMeshes |-> hole.swallowingMeshes,
    meshes |-> << >>, sceneMeshes |-> << >>,
    fallTimers |-> EmptyBag, victoryTimers |-> 0,
    currentLevelIndex |-> IF st = NoItem THEN 0 ELSE parseInt(st),
    currentLevel |-> NoLevel, remainingObjects |-> {}, requiredObjects |-> {},
    levelObjects |-> << >>, storage |-> st, pc |-> "booting",
    victoryCalls |-> 0, gameCompleteCalls |-> 0, completeShown |-> FALSE,
    resets |-> 0, probe |-> NoProbe,
    last |-> [Observe("construct") EXCEPT !.cuts = made.cuts] ]

PageReload ==
  /\ pc \in {"booting", "running"}
  /\ Becomes(Constructed(levels, storage))

StoredValues(lv) == {NoItem} \cup { toString(i) : i \in 0..Len(lv) }

Starts(w) ==
  /\ levels = w.levels
  /\ radius = w.radius
  /\ position = w.position
  /\ swallowingMeshes = w.swallowingMeshes
  /\ meshes = w.meshes
  /\ sceneMeshes = w.sceneMeshes
  /\ fallTimers = w.fallTimers
  /\ victoryTimers = w.victoryTimers
  /\ currentLevelIndex = w.currentLevelIndex
  /\ currentLevel = w.currentLevel
  /\ remainingObjects = w.remainingObjects
  /\ requiredObjects = w.requiredObjects
  /\ levelObjects = w.levelObjects
  /\ storage = w.storage
  /\ pc = w.pc
  /\ victoryCalls = w.victoryCalls
  /\ gameCompleteCalls = w.gameCompleteCalls
  /\ completeShown = w.completeShown
  /\ resets = w.resets
  /\ probe = w.probe
  /\ last = w.last

Init == \E st \in StoredValues(Catalog) : Starts(Constructed(Catalog, st))

InitTarget ==
  \E st \in StoredValues(TargetCatalog) : Starts(Constructed(TargetCatalog, st))

Next ==
  \/ Boot
  \/ Frame
  \/ Drag
  \/ FallTimer
  \/ VictoryTimer
  \/ PageReload

Spec == Init /\ [][Next]_vars

\* The player restarts from the game-complete screen and then leaves the
\* hole where the level put it: frames and timers go on, drags do not.
DragFirstRun == resets = 0 /\ Drag

NextRestart ==
  \/ Boot
  \/ Frame
  \/ DragFirstRun
  \/ FallTimer
  \/ VictoryTimer
  \/ PageReload
  \/ Restart

SpecRestart == Init /\ [][NextRestart]_vars

\* The player goes on playing after a restart, and throughout drags the hole
\* only under the objects of ReplayIds.
ReplayIds == {"sandbox", "playground_ball", "pebble1"}

ReplayPlaces(w) ==
  IF w.currentLevel = NoLevel THEN {}
  ELSE LET objects == w.levels[w.currentLevel + 1].objects
       IN { << objects[i].position[1], objects[i].position[3] >>
            : i \in { j \in 1..Len(objects) : objects[j].id \in ReplayIds } }

DragReplay ==
  \E p \in ReplayPlaces(World) :
    /\ p # position
    /\ Step(moveTo(Begin("moveTo"), p[1], p[2]))

NextReplay ==
  \/ Boot
  \/ Frame
  \/ DragReplay
  \/ FallTimer
  \/ VictoryTimer
  \/ PageReload
  \/ Restart

SpecReplay == Init /\ [][NextReplay]_vars

InitInvalid ==
  \E st \in StoredValues(InvalidCatalog) : Starts(Constructed(InvalidCatalog, st))

SpecInvalid == InitInvalid /\ [][Next]_vars

SpecTarget == InitTarget /\ [][Next]_vars

\* ------------------------------------------------ calls of the pure rules
MaxProbe == 6

gameVars == << levels, radius, position, swallowingMeshes, meshes, sceneMeshes,
               fallTimers, victoryTimers, currentLevelIndex, currentLevel,
               remainingObjects, requiredObjects, levelObjects, storage, pc,
               victoryCalls, gameCompleteCalls, completeShown, resets, last >>

ProbeCanSwallow ==
  \E h \in 1..MaxProbe, r \in 1..MaxProbe, d \in 0..(2 * MaxProbe) :
    /\ probe' = [fn |-> "canSwallow", a |-> h, b |-> r, c |-> d,
                 result |-> IF canSwallow(h, r, d) THEN 1 ELSE 0,
                 made |-> NoHole]
    /\ UNCHANGED gameVars

ProbeGrowth ==
  \E r \in 1..(2 * MaxProbe) :
    /\ probe' = [fn |-> "calculateGrowth", a |-> 10 * r, b |-> GrowthRateTenths,
                 c |-> 0, result |-> calculateGrowth(10 * r, GrowthRateTenths),
                 made |-> NoHole]
    /\ UNCHANGED gameVars

\* new Hole(...) with and without the Game reference, as the unit tests of
\* the constructor call it
ProbeHole ==
  \E game \in BOOLEAN, r \in {DefaultRadius, MaxProbe},
     x \in {0, MaxProbe}, z \in {0, 0 - MaxProbe} :
    /\ probe' = [fn |-> "Hole", a |-> r, b |-> x, c |-> z,
                 result |-> IF game THEN 1 ELSE 0,
                 made |-> HoleConstructor(r, << x, z >>, game)]
    /\ UNCHANGED gameVars

\* the objects of the progression test: radii 0.25, 0.5 and 1.0
ExampleRadii == << 50, 100, 200 >>

\* The progression test: a hole of radius 0.8 finalizes the swallow of the
\* example objects one after the other; a is the radius, b the number of
\* objects swallowed, c whether the last object passes canSwallow at
\* distance 0, result the last growth amount.
ProbeProgression ==
  \/ probe' = [fn |-> "progression", a |-> DefaultRadius, b |-> 0,
               c |-> IF canSwallow(DefaultRadius, ExampleRadii[3], 0) THEN 1 ELSE 0,
               result |-> 0, made |-> NoHole]
     /\ UNCHANGED gameVars
  \/ /\ probe.fn = "progression"
     /\ probe.b < Len(ExampleRadii)
     /\ LET amount == calculateGrowth(ExampleRadii[probe.b + 1], GrowthRateTenths)
            grown  == grow([Begin("grow") EXCEPT !.radius = probe.a], amount).radius
        IN probe' = [fn |-> "progression", a |-> grown, b |-> probe.b + 1,
                     c |-> IF canSwallow(grown, ExampleRadii[3], 0) THEN 1 ELSE 0,
                     result |-> amount, made |-> NoHole]
     /\ UNCHANGED gameVars

NextProbe == ProbeCanSwallow \/ ProbeGrowth \/ ProbeHole \/ ProbeProgression

SpecProbe == Init /\ [][NextProbe]_vars

\* ------------------------------------------------- the cut of the ground
\* the thresholds of Game.cutHoleInGround: 0.3 for the position, 0.01 for
\* the radius
MinDistance == 60
RadiusTolerance == 2

Abs(n) == IF n < 0 THEN 0 - n ELSE n

\* the fields of a Game just constructed: no cut requested and none made;
\* pending holds the radius that each requested animation-frame callback has
\* captured, cutPosition and cutRadius the hole that the ground has
NoGround ==
  [ hasLast |-> FALSE, lastHolePosition |-> << 0, 0 >>, lastHoleRadius |-> 0,
    isUpdatingHole |-> FALSE, pending |-> << >>,
    hasCut |-> FALSE, cutPosition |-> << 0, 0 >>, cutRadius |-> 0 ]

\* Game.cutHoleInGround(position, radius) on the Game's fields g
requestCut(g, pos, r) ==
  IF g.isUpdatingHole THEN g
  ELSE LET needsUpdate ==
             \/ ~g.hasLast
             \/ Sq(pos[1] - g.lastHolePosition[1])
                  + Sq(pos[2] - g.lastHolePosition[2]) > Sq(MinDistance)
             \/ Abs(r - g.lastHoleRadius) > RadiusTolerance
       IN IF needsUpdate
          THEN [g EXCEPT !.isUpdatingHole = TRUE,
                         !.hasLast = TRUE,
                         !.lastHolePosition = pos,
                         !.lastHoleRadius = r,
                         !.pending = Append(@, r)]
          ELSE g

\* the calls of cutHoleInGround that an operation of the Hole made, in order
RECURSIVE requestCuts(_, _)
requestCuts(g, cuts) ==
  IF cuts = << >> THEN g
  ELSE requestCuts(requestCut(g, << Head(cuts).x, Head(cuts).z >>, Head(cuts).radius),
                   Tail(cuts))

\* The animation-frame callback of cutHoleInGround: it cuts the ground with
\* the radius it captured, at the position that the hole's Vector3, which it
\* holds by reference, has when it runs, and clears isUpdatingHole.
animationFrame(g, pos) ==
  [g EXCEPT !.hasCut = TRUE,
            !.cutPosition = pos,
            !.cutRadius = Head(g.pending),
            !.isUpdatingHole = FALSE,
            !.pending = Tail(@)]

\* the places the hole of the cut runs is moved to: two of them are closer
\* to each other than MinDistance
CutPlaces == { << 0, 0 >>, << 40, 0 >>, << 200, 200 >> }

\* growth amounts below and above RadiusTolerance: 0.005, and the 0.015 of
\* a pebble
CutGrowths == { 1, calculateGrowth(10, GrowthRateTenths) }

\* a Game and its Hole: a is the hole radius, (b, c) its position, result
\* the number of cuts made, made the Game's fields
CutProbe(r, pos, n, g) ==
  [fn |-> "cut", a |-> r, b |-> pos[1], c |-> pos[2], result |-> n, made |-> g]

\* new Game(): the Hole constructor requests the first cut
CutStart ==
  /\ probe.fn # "cut"
  /\ LET made == HoleConstructor(DefaultRadius, << 0, 0 >>, TRUE)
     IN probe' = CutProbe(DefaultRadius, << 0, 0 >>, 0, requestCuts(NoGround, made.cuts))
  /\ UNCHANGED gameVars

\* pointermove: hole.moveTo, once the first frame has been rendered
CutMove ==
  /\ probe.fn = "cut"
  /\ probe.made.hasCut
  /\ \E p \in CutPlaces :
       /\ p # << probe.b, probe.c >>
       /\ LET after == moveTo([Begin("moveTo") EXCEPT !.radius = probe.a,
                                                      !.position = << probe.b, probe.c >>],
                              p[1], p[2])
          IN probe' = CutProbe(after.radius, after.position, probe.result,
                               requestCuts(probe.made, after.last.cuts))
  /\ UNCHANGED gameVars

\* a swallow is finalized: hole.grow
CutGrow ==
  /\ probe.fn = "cut"
  /\ probe.made.hasCut
  /\ \E amount \in CutGrowths :
       /\ probe.a + amount <= DefaultRadius + MaxProbe
       /\ LET after == grow([Begin("grow") EXCEPT !.radius = probe.a,
                                                  !.position = << probe.b, probe.c >>],
                            amount)
          IN probe' = CutProbe(after.radius, after.position, probe.result,
                               requestCuts(probe.made, after.last.cuts))
  /\ UNCHANGED gameVars

\* the browser runs the requested animation-frame callback
CutFrame ==
  /\ probe.fn = "cut"
  /\ probe.made.pending # << >>
  /\ probe' = CutProbe(probe.a, << probe.b, probe.c >>,
                       IF probe.result < MaxProbe THEN probe.result + 1 ELSE probe.result,
                       animationFrame(probe.made, << probe.b, probe.c >>))
  /\ UNCHANGED gameVars

NextCut == CutStart \/ CutMove \/ CutGrow \/ CutFrame

SpecCut == Init /\ [][NextCut]_vars

\* ------------------------------------------------------------------ claims
LevelActive == currentLevel # NoLevel

Victory == levels[currentLevel + 1].victory

\* C1: however often update() runs while an object is in flight, the hole
\* disposes of a mesh at most once and grows for it at most once, and at
\* most one checkFall closure is pending per mesh.
C1_AtMostOnce ==
  /\ \A h \in DOMAIN meshes :
       meshes[h].holeDisposals <= 1 /\ meshes[h].growths <= 1
  /\ \A t \in BagToSet(fallTimers) : CopiesIn(t, fallTimers) = 1
  /\ \A t1, t2 \in BagToSet(fallTimers) : t1.mesh = t2.mesh => t1 = t2

\* update() met a mesh that is in flight and meets the swallow conditions
C1_Witness ==
  \E h \in last.reattempted :
    /\ h[1] \in swallowingMeshes
    /\ \E t \in BagToSet(fallTimers) : t.mesh = h

RECURSIVE SumRadii(_)
SumRadii(fs) ==
  IF fs = << >> THEN 0 ELSE Head(fs).swallowRadius + SumRadii(Tail(fs))

\* C2: in every step that neither loads a level nor constructs a new hole
\* the radius does not decrease, and it changes by exactly 0.3 times the
\* radii of the objects finalized in that step (so not at all when none is).
C2_MonotonicGrowth ==
  [][ (pc' = pc /\ ~last'.loaded) =>
        /\ radius' >= radius
        /\ 10 * (radius' - radius) = GrowthRateTenths * SumRadii(last'.finalized)
    ]_vars

C2_Witness ==
  /\ last.op = "poll"
  /\ Len(last.finalized) = 1
  /\ LevelActive
  /\ radius > levels[currentLevel + 1].hole.startRadius

\* C3: canSwallow(h, r, d) is true exactly when d - r < 0.9 h and r < h;
\* it is false when r = h, and true at distance 0 when r < h.
C3_CanSwallowRule ==
  probe.fn = "canSwallow" =>
    /\ (probe.result = 1) <=>
         (10 * (probe.c - probe.b) < 9 * probe.a /\ probe.b < probe.a)
    /\ probe.b = probe.a => probe.result = 0
    /\ (probe.c = 0 /\ probe.b < probe.a) => probe.result = 1

C3_Witness ==
  /\ probe.fn = "canSwallow"
  /\ probe.a = probe.b
  /\ probe.c = 0
  /\ probe.result = 0

VictoryBy(w, id) == onObjectSwallowed(w, id).victoryCalls > w.victoryCalls

RECURSIVE OnlyLastWins(_)
OnlyLastWins(w) ==
  \A id \in w.remainingObjects :
    /\ VictoryBy(w, id) <=> (w.remainingObjects = {id})
    /\ OnlyLastWins(onObjectSwallowed(w, id))

\* C4: in an all_objects level victory has been triggered exactly when no
\* object remains, and in whatever order the remaining objects are notified,
\* only the notification that removes the last one triggers it.
C4_AllObjectsVictory ==
  (LevelActive /\ Victory.type = "all_objects") =>
    /\ (victoryCalls >= 1) <=> (remainingObjects = {})
    /\ OnlyLastWins(World)

C4_Witness ==
  /\ LevelActive
  /\ Victory.type = "all_objects"
  /\ last.victories = 1
  /\ Len(last.finalized) = 1
  /\ remainingObjects = {}

RequiredIds == SeqToSet(Victory.requiredObjects)

\* C5: in a specific_objects level no victory is triggered while a required
\* id remains, and a notification triggers victory exactly when every
\* required id is absent afterwards, whatever else remains.
C5_SpecificObjectsVictory ==
  (LevelActive /\ Victory.type = "specific_objects") =>
    /\ (victoryCalls = 0) <=> (RequiredIds \cap remainingObjects # {})
    /\ \A id \in remainingObjects :
         VictoryBy(World, id) <=>
           (RequiredIds \cap onObjectSwallowed(World, id).remainingObjects = {})

C5_Witness ==
  /\ LevelActive
  /\ Victory.type = "specific_objects"
  /\ last.victories = 1
  /\ victoryCalls = 1
  /\ "sandbox" \notin remainingObjects
  /\ Cardinality(remainingObjects) \in {1, 2}

NotifiedIds ==
  UNION { Ids(levels[i]) : i \in 1..Len(levels) } \cup {"unknown"}

Observable(w) ==
  << w.remainingObjects, w.currentLevelIndex, w.storage, w.victoryCalls,
     w.gameCompleteCalls, w.victoryTimers >>

\* C7: a second onObjectSwallowed for the same id changes nothing that the
\* first left, and a notification for an id that is not remaining (unknown
\* or already removed) changes nothing at all.
C7_IdempotentNotification ==
  \A id \in NotifiedIds :
    LET once == onObjectSwallowed(World, id)
        twice == onObjectSwallowed(once, id)
    IN /\ Observable(twice) = Observable(once)
       /\ id \notin remainingObjects => Observable(once) = Observable(World)

C7_Witness ==
  /\ last.checks # << >>
  /\ last.victories = 1
  /\ \E i \in 1..Len(last.finalized) :
       last.finalized[i].mesh[1] \notin remainingObjects

\* C8: after a victory on level i the stored value is i + 1, and a
\* LevelManager constructed with a stored value below the catalog length
\* loads that level.
C8_PersistenceRoundTrip ==
  /\ (LevelActive /\ last.victories > 0) => storage = toString(currentLevel + 1)
  /\ (last.op = "boot" /\ storage # NoItem /\ parseInt(storage) < Len(levels)) =>
       currentLevel = parseInt(storage)

\* C9: the victory callback is invoked at most once per loaded level and
\* the level index is at most one ahead of the loaded level.
C9_VictoryOncePerLevel ==
  /\ victoryCalls <= 1
  /\ LevelActive => currentLevelIndex <= currentLevel + 1

\* C10: loadCurrentLevel() with the index at or beyond the catalog length
\* invokes onGameComplete once and changes neither the level state nor the
\* hole nor the scene.
C10_Exhaustion ==
  currentLevelIndex >= Len(levels) =>
    LET after == loadCurrentLevel(Begin("loadCurrentLevel"))
    IN /\ after.gameCompleteCalls = gameCompleteCalls + 1
       /\ ~after.last.loaded
       /\ after.currentLevel = currentLevel
       /\ after.remainingObjects = remainingObjects
       /\ after.requiredObjects = requiredObjects
       /\ after.levelObjects = levelObjects
       /\ after.radius = radius
       /\ after.position = position
       /\ after.meshes = meshes
       /\ after.sceneMeshes = sceneMeshes

C10_Witness ==
  /\ last.op = "boot"
  /\ last.completes = 1
  /\ ~last.loaded
  /\ currentLevelIndex >= Len(levels)
  /\ currentLevel = NoLevel

\* C11: after victory on the last level of the catalog the timeout loads no
\* level, and onGameComplete is invoked exactly once.
C11_GameCompletion ==
  /\ gameCompleteCalls <= 1
  /\ (last.op = "victoryTimeout" /\ currentLevelIndex >= Len(levels)) =>
       (~last.loaded /\ last.completes = 1)

\* C12: when the victory callback runs, the index has been incremented and
\* stored, the timeout of this victory is not yet set, and getCurrentLevel()
\* is the level that was played; the step of a victory loads no level, and a
\* level is loaded only at start-up, by the timeout or by a restart.
C12_VictoryOrdering ==
  [][ /\ last'.victories > 0 =>
           /\ Len(last'.seen) = last'.victories
           /\ \A i \in 1..Len(last'.seen) :
                /\ last'.seen[i].currentLevel = currentLevel
                /\ last'.seen[i].currentLevelIndex = currentLevelIndex + i
                /\ last'.seen[i].storage = toString(currentLevelIndex + i)
                /\ last'.seen[i].victoryTimers = victoryTimers + i - 1
           /\ currentLevel' = currentLevel
           /\ ~last'.loaded
           /\ victoryTimers' = victoryTimers + last'.victories
      /\ last'.loaded => last'.op \in {"boot", "victoryTimeout", "resetProgress"}
    ]_vars

C12_Witness ==
  /\ last.victories = 1
  /\ last.seen[1].currentLevel = currentLevel
  /\ last.seen[1].currentLevelIndex = currentLevel + 1
  /\ last.seen[1].storage = toString(currentLevel + 1)
  /\ storage = toString(currentLevel + 1)
  /\ victoryTimers = 1
  /\ ~last.loaded

\* C13: in a specific_objects level whose victory condition names an id
\* that no object of the level has, victory is never triggered, whatever is
\* swallowed.
C13_InvalidConfigFailSafe ==
  (/\ LevelActive
   /\ Victory.type = "specific_objects"
   /\ ~(RequiredIds \subseteq Ids(levels[currentLevel + 1]))) =>
     victoryCalls = 0

RequiredFlagged(level) ==
  { level.objects[i].id : i \in { j \in 1..Len(level.objects) :
                                    level.objects[j].isRequired } }

\* the per-level state right after loadLevel(config)
FreshlyLoaded(w, config) ==
  /\ w.remainingObjects = Ids(config)
  /\ w.requiredObjects = RequiredFlagged(config)
  /\ DOMAIN w.levelObjects = Ids(config)
  /\ \A id \in DOMAIN w.levelObjects :
       LET h == w.levelObjects[id]
       IN /\ h[1] = id
          /\ ~w.meshes[h].old /\ ~w.meshes[h].disposed
          /\ w.meshes[h].y >= 0
  /\ \A h \in DOMAIN w.meshes :
       w.meshes[h].old => (w.meshes[h].disposed /\ h \notin SeqToSet(w.sceneMeshes))
  /\ SeqToSet(w.sceneMeshes) = { w.levelObjects[id] : id \in DOMAIN w.levelObjects }
  /\ w.radius = config.hole.startRadius
  /\ w.position = config.hole.startPosition

Cut(p, r) == [x |-> p[1], z |-> p[2], radius |-> r]

\* C18: from every reachable state, moveTo(x, z) puts the hole at (x, z),
\* leaves the radius and the in-flight set as they are and asks for exactly
\* one cut, at the new position with the current radius; so does every drag
\* that was made.
C18_MoveTo ==
  /\ \A p \in Places(World) :
       LET after == moveTo(Begin("moveTo"), p[1], p[2])
       IN /\ after.position = p
          /\ after.radius = radius
          /\ after.swallowingMeshes = swallowingMeshes
          /\ after.last.cuts = << Cut(p, radius) >>
  /\ last.op = "moveTo" => last.cuts = << Cut(position, radius) >>

\* the hole has been dragged away from the start while a swallow is in flight
C18_Witness ==
  /\ last.op = "moveTo"
  /\ LevelActive
  /\ swallowingMeshes # {}
  /\ position # levels[currentLevel + 1].hole.startPosition
  /\ radius > levels[currentLevel + 1].hole.startRadius
  /\ last.cuts = << Cut(position, radius) >>

GrowAmounts ==
  {0} \cup { calculateGrowth(levels[i].objects[j].swallowRadius, GrowthRateTenths) :
               i \in 1..Len(levels), j \in 1..4 }

\* C19: from every reachable state, grow(amount) with amount >= 0 adds
\* exactly amount to the radius, leaves the position as it is and asks for
\* one cut with the new radius; so does the growth of every finalization.
C19_Grow ==
  /\ \A a \in GrowAmounts :
       LET after == grow(Begin("grow"), a)
       IN /\ after.radius = radius + a
          /\ after.position = position
          /\ after.last.cuts = << Cut(position, radius + a) >>
  /\ (last.op = "poll" /\ Len(last.finalized) = 1) =>
       last.cuts = << Cut(position, radius) >>

\* a poll has finalized an object away from the start position
C19_Witness ==
  /\ last.op = "poll"
  /\ Len(last.finalized) = 1
  /\ last.finalized[1].growAmount > 0
  /\ position # << 0, 0 >>
  /\ last.cuts = << Cut(position, radius) >>

\* C20: new Hole(...) without the Game reference throws and leaves no hole
\* and no cut request; with the reference it builds one hole with the given
\* radius and position and asks for one cut at that position and radius.
C20_ConstructorFailFast ==
  /\ probe.fn = "Hole" =>
       IF probe.result = 0
       THEN /\ probe.made.threw
            /\ probe.made.holes = {}
            /\ probe.made.cuts = << >>
       ELSE /\ ~probe.made.threw
            /\ probe.made.holes =
                 {[radius |-> probe.a, position |-> << probe.b, probe.c >>,
                   swallowingMeshes |-> {}]}
            /\ probe.made.cuts = << Cut(<< probe.b, probe.c >>, probe.a) >>
  /\ last.op = "construct" =>
       /\ last.cuts = << Cut(<< 0, 0 >>, DefaultRadius) >>
       /\ radius = DefaultRadius /\ position = << 0, 0 >>

C20_Witness ==
  /\ probe.fn = "Hole"
  /\ probe.result = 0
  /\ probe.made.threw
  /\ probe.made.holes = {}

\* C14: the poll of a mesh that someone else has disposed above the disposal
\* depth sets no further timer, does not grow the hole and leaves the mesh's
\* id out of the in-flight set.
C14_OutOfBandDisposal ==
  \A t \in BagToSet(fallTimers) :
    (meshes[t.mesh].disposed /\ meshes[t.mesh].y >= DisposalDepth) =>
      LET before == [Begin("poll") EXCEPT !.fallTimers = @ (-) SetToBag({t})]
          after  == checkFall(before, t.mesh, t.growAmount)
      IN /\ after.fallTimers = before.fallTimers
         /\ after.radius = radius
         /\ after.last.finalized = << >>
         /\ t.mesh[1] \notin after.swallowingMeshes

\* C17: from every reachable state, the game-complete state included,
\* resetProgress() leaves the index at 0, no stored item and level 0 loaded,
\* and a LevelManager constructed on that storage starts at level 0; so does
\* every restart that was made.
C17_ResetProgress ==
  /\ LET after == resetProgress(Begin("resetProgress"))
         again == loadCurrentLevel(Constructed(levels, after.storage))
     IN /\ after.currentLevelIndex = 0
        /\ after.storage = NoItem
        /\ after.currentLevel = 0
        /\ after.last.loaded
        /\ after.remainingObjects = Ids(levels[1])
        /\ DOMAIN after.levelObjects = Ids(levels[1])
        /\ again.currentLevelIndex = 0
        /\ again.currentLevel = 0
  /\ last.op = "resetProgress" =>
       /\ currentLevelIndex = 0
       /\ storage = NoItem
       /\ currentLevel = 0
       /\ remainingObjects = Ids(levels[1])

\* the game was complete and has been restarted
C17_Witness ==
  /\ last.op = "resetProgress"
  /\ resets = 1
  /\ currentLevelIndex = 0
  /\ storage = NoItem
  /\ currentLevel = 0
  /\ ~completeShown

\* the mesh h is being swallowed and has begun to fall
InFlight(h) ==
  /\ h \in DOMAIN meshes
  /\ h \in TimerMeshes(World)
  /\ h[1] \in swallowingMeshes
  /\ ~meshes[h].disposed
  /\ meshes[h].y < 0

\* C15: a mesh that is in flight and falling stays in the scene until the
\* hole finalizes it: within a page session no step disposes of it except
\* its own finalization, so its fall and its swallow are never cut short.
C15_StartedSwallowCompletes ==
  [][ pc' = pc =>
        \A h \in DOMAIN meshes :
          InFlight(h) =>
            /\ h \in DOMAIN meshes'
            /\ meshes'[h].disposed =>
                 /\ \E i \in 1..Len(last'.finalized) : last'.finalized[i].mesh = h
                 /\ h[1] \notin swallowingMeshes'
    ]_vars

\* C21: from radius 0.8 the swallows of objects of radius 0.25, 0.5 and 1.0
\* give the radii 0.8, 0.875, 1.025, 1.325 (160, 175, 205, 265 units), by
\* growth amounts 0.075, 0.15, 0.3; the radius-1.0 object passes the size
\* rule at 1.025 and not at 0.8 or 0.875.
C21_ExampleProgression ==
  probe.fn = "progression" =>
    /\ probe.a = << 160, 175, 205, 265 >>[probe.b + 1]
    /\ probe.b > 0 => probe.result = << 15, 30, 60 >>[probe.b]
    /\ (probe.c = 1) <=> (probe.b >= 2)

C21_Witness ==
  /\ probe.fn = "progression"
  /\ probe.b = 3
  /\ probe.a = 265
  /\ probe.result = 60

\* the swallow radius the level of w gives to the object id
RadiusOf(w, id) ==
  LET objects == w.levels[w.currentLevel + 1].objects
      i == CHOOSE j \in 1..Len(objects) : objects[j].id = id
  IN objects[i].swallowRadius

\* the state after the object id has been swallowed and finalized: the hole
\* has grown by the object's growth amount and the object is not remaining
Swallowed(w, id) ==
  [w EXCEPT !.radius = @ + calculateGrowth(RadiusOf(w, id), GrowthRateTenths),
            !.remainingObjects = @ \ {id}]

\* update() never starts the swallow of the object id: its id is in the
\* in-flight set and no poll is pending for its mesh
Blocked(w, id) ==
  /\ id \in w.swallowingMeshes
  /\ id \in DOMAIN w.levelObjects => w.levelObjects[id] \notin TimerMeshes(w)

\* the hole under the object id swallows it: the size rule permits it and
\* update() can start it
Permitted(w, id) ==
  /\ canSwallow(w.radius, RadiusOf(w, id), 0)
  /\ ~Blocked(w, id)

\* victory holds in w or is reached by at most n permitted swallows
RECURSIVE Winnable(_, _)
Winnable(w, n) ==
  \/ isVictory(w)
  \/ /\ n > 0
     /\ \E id \in w.remainingObjects :
          /\ Permitted(w, id)
          /\ Winnable(Swallowed(w, id), n - 1)

\* every state that permitted swallows reach from w within n swallows is winnable
RECURSIVE NoFailState(_, _)
NoFailState(w, n) ==
  /\ Winnable(w, Cardinality(w.remainingObjects))
  /\ n > 0 =>
       \A id \in w.remainingObjects :
          Permitted(w, id) => NoFailState(Swallowed(w, id), n - 1)

\* C22: in every level of the catalog victory is reachable from the start
\* state by swallows that the size rule permits, and it stays reachable from
\* every state that permitted swallows lead to.
C22_NoFailState ==
  LevelActive => NoFailState(World, Cardinality(remainingObjects))

\* C23: over every sequence of update() calls and polls the hole disposes
\* each object and grows for it at most once, and update() never puts an
\* object in flight that has been finalized.
C23_ExactlyOnceFinalization ==
  [][ /\ \A h \in DOMAIN meshes' :
           /\ meshes'[h].holeDisposals <= 1
           /\ meshes'[h].growths <= 1
      /\ \A h \in last'.started \cup last'.reattempted :
           /\ h \in DOMAIN meshes
           /\ meshes[h].holeDisposals = 0
           /\ meshes[h].growths = 0 ]_vars

\* an update() has run with the hole still under the place of an object it
\* finalized, and nothing is in flight
C23_Witness ==
  /\ LevelActive
  /\ last.op = "idle"
  /\ fallTimers = EmptyBag
  /\ swallowingMeshes = {}
  /\ \E h \in DOMAIN meshes :
       /\ meshes[h].holeDisposals = 1
       /\ meshes[h].growths = 1
       /\ position = << meshes[h].x, meshes[h].z >>

\* the world in which update() examines the i-th mesh of ms
Examined(ms, i) == UpdateAll(Begin("update"), SubSeq(ms, 1, i - 1))

\* the conditions under which update() may put the mesh h in flight
Gate(w, h) ==
  LET m == w.meshes[h]
  IN /\ canSwallow(10 * w.radius, 10 * m.swallowRadius,
                    Distance10(<< m.x, m.y, m.z >>, << w.position[1], 0, w.position[2] >>))
     /\ Sq(m.x - w.position[1]) + Sq(m.z - w.position[2]) < Sq(w.radius)
     /\ m.y < GroundLevelCeiling
     /\ h[1] \notin w.swallowingMeshes
     /\ m.swallowRadius < w.radius

\* C24: update() puts an object in flight only if in that frame canSwallow
\* holds for its radius and 3D distance, its horizontal distance to the hole
\* centre is less than the hole radius, its y is below 1 and its id is not in
\* flight; so an object whose radius is not smaller than the hole radius is
\* never put in flight, never disposed by the hole and never grows it.
C24_SwallowStartGating ==
  [][ /\ LET ms == getSwallowableObjects(World, sceneMeshes)
         IN \A i \in 1..Len(ms) :
              LET w == Examined(ms, i)
                  after == UpdateMesh(w, ms[i])
              IN \/ Gate(w, ms[i])
                 \/ /\ after.swallowingMeshes = w.swallowingMeshes
                    /\ after.fallTimers = w.fallTimers
                    /\ after.meshes = w.meshes
                    /\ after.radius = w.radius
                    /\ after.last.started = w.last.started
      /\ \A i \in 1..Len(last'.finalized) :
           last'.finalized[i].swallowRadius < radius ]_vars

\* the world in which the pending poll t runs, and the world it leaves
Polling(t) == [Begin("poll") EXCEPT !.fallTimers = @ (-) SetToBag({t})]

Polled(t) == checkFall(Polling(t), t.mesh, t.growAmount)

C26_LevelOneSizeGating ==
  (currentLevel = 0 /\ radius = levels[1].hole.startRadius) =>
    /\ swallowingMeshes \subseteq {"pebble1", "pebble2"}
    /\ \A id \in remainingObjects \ {"pebble1", "pebble2"} :
         ~canSwallow(radius, RadiusOf(World, id), 0)

\* the pending polls of objects that are below ground
Sinking(w) == { t \in BagToSet(w.fallTimers) : w.meshes[t.mesh].y < 0 }

\* the object of the poll t has fallen below the disposal depth and t runs
Finalizes(w, t) ==
  checkFall([w EXCEPT !.meshes[t.mesh].y = DeepY,
                      !.fallTimers = @ (-) SetToBag({t})],
            t.mesh, t.growAmount)

\* in whatever order the polls of T finalize, each removes its own id from
\* the in-flight set and adds its own growth amount
RECURSIVE Independent(_, _)
Independent(w, T) ==
  \A t \in T :
    LET after == Finalizes(w, t)
    IN /\ after.swallowingMeshes = w.swallowingMeshes \ {t.mesh[1]}
       /\ after.radius = w.radius + t.growAmount
       /\ \A u \in T \ {t} : u \in BagToSet(after.fallTimers)
       /\ Independent(after, T \ {t})

RECURSIVE SumGrowAmounts(_)
SumGrowAmounts(fs) ==
  IF fs = << >> THEN 0 ELSE Head(fs).growAmount + SumGrowAmounts(Tail(fs))

\* C27: with several objects in flight, each finalization removes only its
\* own id from the in-flight set, and the finalizations add up to the sum of
\* the precomputed growth amounts in whatever order they happen, update() and
\* moveTo() calls in between included.
C27_OverlappingSwallows ==
  [][ /\ Independent(World, Sinking(World))
      /\ (~last'.loaded /\ last'.op # "construct") =>
           /\ radius' = radius + SumGrowAmounts(last'.finalized)
           /\ swallowingMeshes' =
                (swallowingMeshes \cup { h[1] : h \in last'.started })
                  \ { last'.finalized[i].mesh[1] : i \in 1..Len(last'.finalized) } ]_vars

\* one of two objects in flight has just been finalized, the other is still
\* falling and has its own growth amount
C27_Witness ==
  /\ last.op = "poll"
  /\ Len(last.finalized) = 1
  /\ \E t \in Sinking(World) :
       /\ t.mesh[1] \in swallowingMeshes
       /\ ~meshes[t.mesh].disposed
       /\ t.growAmount # last.finalized[1].growAmount

\* C28: after a loadLevel no id of a newly created level object is in the
\* hole's in-flight set, so update() starts the swallow of every new object
\* that meets the swallow conditions.
C28_NoStaleInFlightIds ==
  last.loaded =>
    /\ swallowingMeshes \cap DOMAIN levelObjects = {}
    /\ \A id \in DOMAIN levelObjects : ~Blocked(World, id)

\* C29: the level index stays within 0..catalog length, and a persisted
\* value, whenever there is one, equals the level index.
C29_LevelIndexInRange ==
  /\ 0 <= currentLevelIndex
  /\ currentLevelIndex <= Len(levels)
  /\ storage # NoItem => parseInt(storage) = currentLevelIndex

\* C30: at most one cut of the ground is pending, and when none is pending
\* the ground has been cut with the hole's current radius and position up to
\* the tolerances 0.01 and 0.3, so that a hole that stops changing has its
\* ground cut, also when it changed while a cut was pending.
C30_GroundCutCatchesUp ==
  probe.fn = "cut" =>
    /\ Len(probe.made.pending) <= 1
    /\ probe.made.isUpdatingHole <=> probe.made.pending # << >>
    /\ (probe.made.hasCut /\ probe.made.pending = << >>) =>
         /\ Abs(probe.made.cutRadius - probe.a) <= 2
         /\ Sq(probe.made.cutPosition[1] - probe.b)
              + Sq(probe.made.cutPosition[2] - probe.c) <= Sq(60)

====
